---- MODULE Spec2Model ----
(***************************************************************************)
(* Tic Tac Toe (src/tic_tac_toe_frontend/src/App.js): the board engine     *)
(* (buildWinningLines, calculateWinner, isBoardFull), the heuristic AI     *)
(* (aiMove) and the Game component's state, handlers and effects.          *)
(*                                                                         *)
(* A step of Spec is one event (a click handler or the AI timer callback)  *)
(* together with the re-render it causes and the effects of that render:   *)
(* the AI turn effect (cleanup, then maybe a new timer) and the score      *)
(* effect.  JavaScript runs one callback at a time, and React renders and  *)
(* runs the effects of a click before the next timer callback can start,   *)
(* so no event falls between a handler and the effects of its render.      *)
(* Handlers take any cell of the board: the disabled attribute of a Cell   *)
(* (occupied cell, AI's turn) is not relied on.                            *)
(* SpecEval applies the pure functions to boards drawn from Boards.        *)
(* SpecLive is Spec with a pending timer's firing weakly fair.  SpecCall   *)
(* adds a direct call of handleMove with an index past the board's end.    *)
(* Cells are indexed from 0 as in the source.                              *)
(***************************************************************************)
EXTENDS Integers, Sequences, FiniteSets, TLC

\* ---------------------------------------------------------------- types
null == "null"

\* null where the source returns an index or null (findWinningMove, aiMove).
noIndex == -1

Players == {"X", "O"}

Modes == {"HUMAN", "AI"}

BOARD_SIZES == <<3, 4, 5>>

Sizes == {BOARD_SIZES[k] : k \in 1..Len(BOARD_SIZES)}

\* ---------------------------------------------------------------- bounds
\* Rounds counted on the scoreboard before play stops until resetAll.
MaxRounds == 1

\* A click is drawn from the first MaxChoices empty and the first MaxChoices
\* occupied cells (in index order), the AI's random draw from the first
\* MaxChoices empty cells.
MaxChoices == 2

\* On the 4x4 and 5x5 boards human clicks and the AI's random choice are
\* drawn from the cells with an index below these bounds (3x3 is unbounded).
MaxCells4 == 4

MaxCells5 == 3

\* The first n elements of a set of cell indices.
FirstN(S, n) == {i \in S : Cardinality({j \in S : j < i}) < n}

Playable(size) ==
    IF size = 3 THEN 0..8
    ELSE IF size = 4 THEN 0..(MaxCells4 - 1)
    ELSE 0..(MaxCells5 - 1)

\* A direct call of handleMove with an index past the end of the array is
\* made while the array is at most MaxExtra cells longer than the board.
MaxExtra == 1

\* ---------------------------------------------------------------- utilities
\* An array of one element more than the board has cells.
emptyBoard_oneMore(size) == [i \in 0..(size * size) |-> null]

emptyBoard(size) == [i \in 0..(size * size - 1) |-> null]

\* The anti-diagonal loop run from 0 to size - 1.
buildWinningLines_antiFromZero(size) ==
    LET rows  == [r \in 1..size |-> [c \in 1..size |-> (r - 1) * size + (c - 1)]]
        cols  == [c \in 1..size |-> [r \in 1..size |-> (r - 1) * size + (c - 1)]]
        diag1 == [i \in 1..size |-> (i - 1) * (size + 1)]
        diag2 == [i \in 1..size |-> (i - 1) * (size - 1)]
    IN rows \o cols \o <<diag1>> \o <<diag2>>

\* The columns pushed before the rows.
buildWinningLines_columnsFirst(size) ==
    LET rows  == [r \in 1..size |-> [c \in 1..size |-> (r - 1) * size + (c - 1)]]
        cols  == [c \in 1..size |-> [r \in 1..size |-> (r - 1) * size + (c - 1)]]
        diag1 == [i \in 1..size |-> (i - 1) * (size + 1)]
        diag2 == [i \in 1..size |-> i * (size - 1)]
    IN cols \o rows \o <<diag1>> \o <<diag2>>

\* The anti-diagonal's loop ending one cell early.
buildWinningLines_antiShort(size) ==
    LET rows  == [r \in 1..size |-> [c \in 1..size |-> (r - 1) * size + (c - 1)]]
        cols  == [c \in 1..size |-> [r \in 1..size |-> (r - 1) * size + (c - 1)]]
        diag1 == [i \in 1..size |-> (i - 1) * (size + 1)]
        diag2 == [i \in 1..(size - 1) |-> i * (size - 1)]
    IN rows \o cols \o <<diag1>> \o <<diag2>>

buildWinningLines(size) ==
    LET rows  == [r \in 1..size |-> [c \in 1..size |-> (r - 1) * size + (c - 1)]]
        cols  == [c \in 1..size |-> [r \in 1..size |-> (r - 1) * size + (c - 1)]]
        diag1 == [i \in 1..size |-> (i - 1) * (size + 1)]
        diag2 == [i \in 1..size |-> i * (size - 1)]
    IN rows \o cols \o <<diag1>> \o <<diag2>>

\* The test stopping one cell short of the end of the line.
lineMatches_skipLast(sq, line) ==
    LET token == sq[line[1]]
    IN token # null /\ \A k \in 2..(Len(line) - 1) : sq[line[k]] = token

\* The test of one line in calculateWinner's loop: the first cell holds a
\* token and every other cell of the line holds the same token.
lineMatches(sq, line) ==
    LET token == sq[line[1]]
    IN token # null /\ \A k \in 2..Len(line) : sq[line[k]] = token

\* buildWinningLines is a function of the size alone: its value per size.
winningLines[size \in Sizes] == buildWinningLines(size)

calculateWinner(sq, size) ==
    LET lines == winningLines[size]
        hits  == {k \in 1..Len(lines) : lineMatches(sq, lines[k])}
    IN IF hits = {}
       THEN [winner |-> null, line |-> <<>>]
       ELSE LET k == CHOOSE h \in hits : \A j \in hits : h <= j
            IN [winner |-> sq[lines[k][1]], line |-> lines[k]]

isBoardFull(sq) == \A i \in DOMAIN sq : sq[i] # null

\* squares.map((v, i) => (v ? null : i)).filter(v => v !== null): the empty
\* cells in ascending order.
emptyIndices(sq) ==
    LET isEmpty(i) == sq[i] = null
    IN SelectSeq([k \in 1..Cardinality(DOMAIN sq) |-> k - 1], isEmpty)

findWinningMove(sq, size, player) ==
    LET empties == emptyIndices(sq)
        wins == {k \in 1..Len(empties) :
                    \E test \in {[sq EXCEPT ![empties[k]] = player]} :
                        calculateWinner(test, size).winner = player}
    IN IF wins = {} THEN noIndex
       ELSE empties[CHOOSE k \in wins : \A j \in wins : k <= j]

\* The random branch returning r itself, not emptyIndices[r].
aiMove_randomAnyCell(sq, aiPlayer, size, rnd) ==
    LET human    == IF aiPlayer = "X" THEN "O" ELSE "X"
        empties  == emptyIndices(sq)
        winIdx   == findWinningMove(sq, size, aiPlayer)
        blockIdx == findWinningMove(sq, size, human)
    IN IF winIdx # noIndex THEN winIdx
       ELSE IF blockIdx # noIndex THEN blockIdx
       ELSE IF Len(empties) = 0 THEN noIndex
       ELSE rnd

\* The win index tested for truthiness (if (winIdx)), so that index 0 fails.
aiMove_truthyWin(sq, aiPlayer, size, rnd) ==
    LET human    == IF aiPlayer = "X" THEN "O" ELSE "X"
        empties  == emptyIndices(sq)
        winIdx   == findWinningMove(sq, size, aiPlayer)
        blockIdx == findWinningMove(sq, size, human)
    IN IF winIdx # noIndex /\ winIdx # 0 THEN winIdx
       ELSE IF blockIdx # noIndex THEN blockIdx
       ELSE IF Len(empties) = 0 THEN noIndex
       ELSE empties[rnd + 1]

\* aiMove without its block step.
aiMove_noBlock(sq, aiPlayer, size, rnd) ==
    LET empties  == emptyIndices(sq)
        winIdx   == findWinningMove(sq, size, aiPlayer)
    IN IF winIdx # noIndex THEN winIdx
       ELSE IF Len(empties) = 0 THEN noIndex
       ELSE empties[rnd + 1]

\* rnd stands for Math.floor(Math.random() * emptyIndices.length).
aiMove(sq, aiPlayer, size, rnd) ==
    LET human    == IF aiPlayer = "X" THEN "O" ELSE "X"
        empties  == emptyIndices(sq)
        winIdx   == findWinningMove(sq, size, aiPlayer)
        blockIdx == findWinningMove(sq, size, human)
    IN IF winIdx # noIndex THEN winIdx
       ELSE IF blockIdx # noIndex THEN blockIdx
       ELSE IF Len(empties) = 0 THEN noIndex
       ELSE empties[rnd + 1]

\* ---------------------------------------------------------------- state
VARIABLES
    boardSize,  \* Game state
    squares,
    xIsNext,
    mode,
    aiPlaysAs,
    scores,
    timers,     \* pending setTimeout callbacks, each with the render it closes over
    lastOp,     \* history: the last event, the case it ran in, whether a timer was pending
    placedBy,   \* history: per cell, who placed its mark ("none", "human", "ai")
    out         \* result of the last call of a pure function (SpecEval only)

vars == <<boardSize, squares, xIsNext, mode, aiPlaysAs, scores, timers, lastOp,
         placedBy, out>>

\* One render of Game: the state values its handlers and effects close over.
Render(bs, sq, xn, m, a) ==
    [boardSize |-> bs, squares |-> sq, xIsNext |-> xn, mode |-> m, aiPlaysAs |-> a]

Cur == Render(boardSize, squares, xIsNext, mode, aiPlaysAs)

winnerOf(c) == calculateWinner(c.squares, c.boardSize).winner

currentPlayerOf(c) == IF c.xIsNext THEN "X" ELSE "O"

gameOverOf(c) == winnerOf(c) # null \/ isBoardFull(c.squares)

winner == winnerOf(Cur)

currentPlayer == currentPlayerOf(Cur)

gameOver == gameOverOf(Cur)

\* ---------------------------------------------------------------- handlers
\* squares[i]: the element, or undefined (as falsy as null) outside the array.
at(sq, i) == IF i \in DOMAIN sq THEN sq[i] ELSE null

\* next[i] = v on a copy of the array, for i >= 0: an index past the end
\* makes the array i + 1 long, elements between left empty.
put(sq, i, v) ==
    LET last == IF i >= Cardinality(DOMAIN sq) THEN i ELSE Cardinality(DOMAIN sq) - 1
    IN [j \in 0..last |-> IF j = i THEN v ELSE at(sq, j)]

\* handleMove without its test of the target cell.
handleMove_noOccupiedTest(c, i) ==
    IF winnerOf(c) # null \/ gameOverOf(c)
    THEN [moved |-> FALSE, squares |-> c.squares]
    ELSE [moved |-> TRUE, squares |-> [c.squares EXCEPT ![i] = currentPlayerOf(c)]]

\* handleMove as called from render c (a click uses the latest render, the
\* timer callback the render its effect ran in): whether it sets state, and
\* the array it hands to setSquares.
handleMove(c, i) ==
    IF at(c.squares, i) # null \/ winnerOf(c) # null \/ gameOverOf(c)
    THEN [moved |-> FALSE, squares |-> c.squares]
    ELSE [moved |-> TRUE, squares |-> put(c.squares, i, currentPlayerOf(c))]

\* The guard of onCellClick without its test of the mode.
clickBlocked_noModeTest(c) == currentPlayerOf(c) = c.aiPlaysAs

\* onCellClick's guard: the human may not move on the AI's turn.
clickBlocked(c) == c.mode = "AI" /\ currentPlayerOf(c) = c.aiPlaysAs

\* ---------------------------------------------------------------- effects
\* The dependency list without squares.
aiDepsChanged_noSquares(prev, next, newArray) ==
    \/ prev.mode # next.mode
    \/ prev.aiPlaysAs # next.aiPlaysAs
    \/ currentPlayerOf(prev) # currentPlayerOf(next)
    \/ gameOverOf(prev) # gameOverOf(next)
    \/ prev.boardSize # next.boardSize

\* The AI turn effect's dependency list, compared between two renders.
\* newArray: the event called setSquares, so that squares is a new array.
aiDepsChanged(prev, next, newArray) ==
    \/ prev.mode # next.mode
    \/ prev.aiPlaysAs # next.aiPlaysAs
    \/ currentPlayerOf(prev) # currentPlayerOf(next)
    \/ newArray
    \/ gameOverOf(prev) # gameOverOf(next)
    \/ prev.boardSize # next.boardSize

\* The effect's test taking O for the AI's symbol.
aiSchedule_aiIsO(c) ==
    IF c.mode = "AI" /\ ~gameOverOf(c) /\ ~c.xIsNext
    THEN <<c>>
    ELSE <<>>

\* What the effect of render c schedules: a timer closing over c, or nothing.
aiSchedule(c) ==
    IF c.mode = "AI" /\ ~gameOverOf(c) /\ currentPlayerOf(c) = c.aiPlaysAs
    THEN <<c>>
    ELSE <<>>

\* The effect without its cleanup: the earlier timer stays pending.
aiTurnEffect_noCleanup(prev, next, newArray, pending) ==
    IF aiDepsChanged(prev, next, newArray)
    THEN pending \o aiSchedule(next)
    ELSE pending

\* The AI turn effect on the render after an event: with a dependency
\* changed, the previous run's cleanup (clearTimeout) and then a new run.
aiTurnEffect(prev, next, newArray, pending) ==
    IF aiDepsChanged(prev, next, newArray)
    THEN aiSchedule(next)
    ELSE pending

\* The score effect without a dependency list: it runs after every render.
scoreEffect_everyRender(prev, next, sc) ==
    IF ~gameOverOf(next) THEN sc
    ELSE IF winnerOf(next) # null
         THEN [sc EXCEPT ![winnerOf(next)] = @ + 1]
         ELSE [sc EXCEPT !.draws = @ + 1]

\* The score effect testing the full board before the winner.
scoreEffect_fullFirst(prev, next, sc) ==
    IF gameOverOf(prev) = gameOverOf(next) /\ winnerOf(prev) = winnerOf(next)
    THEN sc
    ELSE IF ~gameOverOf(next) THEN sc
    ELSE IF isBoardFull(next.squares)
         THEN [sc EXCEPT !.draws = @ + 1]
         ELSE [sc EXCEPT ![winnerOf(next)] = @ + 1]

\* The score effect without its test of gameOver.
scoreEffect_noGameOverTest(prev, next, sc) ==
    IF gameOverOf(prev) # gameOverOf(next) \/ winnerOf(prev) # winnerOf(next)
    THEN IF winnerOf(next) = "X" THEN [sc EXCEPT !.X = @ + 1]
         ELSE IF winnerOf(next) = "O" THEN [sc EXCEPT !.O = @ + 1]
         ELSE [sc EXCEPT !.draws = @ + 1]
    ELSE sc

\* The score effect (dependencies gameOver, winner) on the render after an event.
scoreEffect(prev, next, sc) ==
    IF gameOverOf(prev) = gameOverOf(next) /\ winnerOf(prev) = winnerOf(next)
    THEN sc
    ELSE IF ~gameOverOf(next) THEN sc
    ELSE IF winnerOf(next) # null
         THEN [sc EXCEPT ![winnerOf(next)] = @ + 1]
         ELSE [sc EXCEPT !.draws = @ + 1]

\* The state after an event that set state: the new render, then its effects.
Commit(next, newArray, sc, pending) ==
    \E n \in {next} :    \* the render, computed once
        /\ boardSize' = n.boardSize
        /\ squares' = n.squares
        /\ xIsNext' = n.xIsNext
        /\ mode' = n.mode
        /\ aiPlaysAs' = n.aiPlaysAs
        /\ timers' = aiTurnEffect(Cur, n, newArray, pending)
        /\ scores' = scoreEffect(Cur, n, sc)

Session == <<boardSize, squares, xIsNext, mode, aiPlaysAs, scores>>

Total(sc) == sc.X + sc.O + sc.draws

\* The bound on rounds: once MaxRounds rounds are on the scoreboard no mark
\* is placed in a further round (moves in the concluded round still arrive).
MayMove == Total(scores) < MaxRounds \/ gameOver

Op(name, case) == [name |-> name, case |-> case, pending |-> timers # <<>>]

\* The case a move on cell i runs in, read off the state before it.
MoveCase(c, i) ==
    IF gameOverOf(c) THEN "concluded"
    ELSE IF c.squares[i] # null THEN "occupied"
    ELSE "free"

\* The cells a click is drawn from.
Clickable(c) ==
    LET region == DOMAIN c.squares \cap Playable(c.boardSize)
    IN FirstN({i \in region : c.squares[i] = null}, MaxChoices)
         \cup FirstN({i \in region : c.squares[i] # null}, MaxChoices)

\* The values of rnd the AI's random draw is taken from in render c.
Draws(c) ==
    LET empties == emptyIndices(c.squares)
    IN IF Len(empties) = 0 THEN {0}
       ELSE {r \in 0..(Len(empties) - 1) :
                /\ empties[r + 1] \in Playable(c.boardSize)
                /\ r < MaxChoices}

\* ---------------------------------------------------------------- events
\* History: by whom each mark on the board was placed. A cell that keeps
\* its mark keeps its entry; a new mark is entered for the step's actor.
Provenance(by) ==
    placedBy' = [i \in DOMAIN squares' |->
                    IF squares'[i] = null THEN "none"
                    ELSE IF i \in DOMAIN squares /\ squares[i] = squares'[i]
                         THEN placedBy[i]
                         ELSE by]

\* App's toggleTheme sets App's own state (the theme, which Game never
\* reads): App renders again and with it Game, its state as it was.
toggleTheme ==
    /\ Commit(Cur, FALSE, scores, timers)
    /\ lastOp' = Op("toggleTheme", "render")
    /\ UNCHANGED out
    /\ Provenance("none")

onCellClick(i) ==
    /\ MayMove
    /\ i \in Clickable(Cur)
    /\ IF clickBlocked(Cur)
       THEN /\ lastOp' = Op("onCellClick", "aiTurn")
            /\ UNCHANGED <<Session, timers>>
       ELSE LET h == handleMove(Cur, i)
            IN /\ lastOp' = Op("onCellClick", MoveCase(Cur, i))
               /\ IF h.moved
                  THEN Commit(Render(boardSize, h.squares, ~xIsNext, mode, aiPlaysAs),
                              TRUE, scores, timers)
                  ELSE UNCHANGED <<Session, timers>>
    /\ UNCHANGED out
    /\ Provenance("human")

\* The callback of pending timer k runs: aiMove and handleMove of the render
\* it closes over; setXIsNext's updater acts on the state of the moment.
aiTimerFire(k, rnd) ==
    \E t \in {timers[k]} :
    \E idx \in {aiMove(t.squares, t.aiPlaysAs, t.boardSize, rnd)} :
    LET rest == SubSeq(timers, 1, k - 1) \o SubSeq(timers, k + 1, Len(timers))
        h    == handleMove(t, idx)
    IN /\ MayMove
       /\ IF idx = noIndex
          THEN /\ lastOp' = Op("aiTimer", "noMove")
               /\ timers' = rest
               /\ UNCHANGED Session
          ELSE /\ lastOp' = Op("aiTimer", MoveCase(t, idx))
               /\ IF h.moved
                  THEN Commit(Render(boardSize, h.squares, ~xIsNext, mode, aiPlaysAs),
                              TRUE, scores, rest)
                  ELSE /\ timers' = rest
                       /\ UNCHANGED Session
       /\ UNCHANGED out
       /\ Provenance("ai")

\* resetBoard clearing the board alone.
resetBoard_keepTurn ==
    /\ Commit(Render(boardSize, emptyBoard(boardSize), xIsNext, mode, aiPlaysAs),
              TRUE, scores, timers)
    /\ lastOp' = Op("resetBoard", IF gameOver THEN "concluded" ELSE "open")
    /\ UNCHANGED out
    /\ Provenance("none")

resetBoard ==
    /\ Commit(Render(boardSize, emptyBoard(boardSize), TRUE, mode, aiPlaysAs),
              TRUE, scores, timers)
    /\ lastOp' = Op("resetBoard", IF gameOver THEN "concluded" ELSE "open")
    /\ UNCHANGED out
    /\ Provenance("none")

resetAll ==
    /\ Commit(Render(boardSize, emptyBoard(boardSize), TRUE, mode, aiPlaysAs),
              TRUE, [X |-> 0, O |-> 0, draws |-> 0], timers)
    /\ lastOp' = Op("resetAll", IF gameOver THEN "concluded" ELSE "open")
    /\ UNCHANGED out
    /\ Provenance("none")

\* changeMode setting the mode alone.
changeMode_noReset(newMode) ==
    /\ Commit(Render(boardSize, squares, xIsNext, newMode, aiPlaysAs),
              FALSE, scores, timers)
    /\ lastOp' = Op("changeMode", IF gameOver THEN "concluded" ELSE "open")
    /\ UNCHANGED out
    /\ Provenance("none")

changeMode(newMode) ==
    /\ Commit(Render(boardSize, emptyBoard(boardSize), TRUE, newMode, aiPlaysAs),
              TRUE, scores, timers)
    /\ lastOp' = Op("changeMode", IF gameOver THEN "concluded" ELSE "open")
    /\ UNCHANGED out
    /\ Provenance("none")

\* changeAiSide setting the side alone.
changeAiSide_noReset(side) ==
    /\ Commit(Render(boardSize, squares, xIsNext, mode, side),
              FALSE, scores, timers)
    /\ lastOp' = Op("changeAiSide", IF gameOver THEN "concluded" ELSE "open")
    /\ UNCHANGED out
    /\ Provenance("none")

changeAiSide(side) ==
    /\ Commit(Render(boardSize, emptyBoard(boardSize), TRUE, mode, side),
              TRUE, scores, timers)
    /\ lastOp' = Op("changeAiSide", IF gameOver THEN "concluded" ELSE "open")
    /\ UNCHANGED out
    /\ Provenance("none")

changeBoardSize(size) ==
    /\ Commit(Render(size, emptyBoard(size), TRUE, mode, aiPlaysAs),
              TRUE, scores, timers)
    /\ lastOp' = Op("changeBoardSize", IF gameOver THEN "concluded" ELSE "open")
    /\ UNCHANGED out
    /\ Provenance("none")

\* ---------------------------------------------------------------- specification
NoOut == [op |-> "none"]

Init ==
    /\ boardSize = 3
    /\ squares = emptyBoard(3)
    /\ xIsNext = TRUE
    /\ mode = "HUMAN"
    /\ aiPlaysAs = "O"
    /\ scores = [X |-> 0, O |-> 0, draws |-> 0]
    /\ timers = aiSchedule(Render(3, emptyBoard(3), TRUE, "HUMAN", "O"))
    /\ lastOp = [name |-> "mount", case |-> "render", pending |-> FALSE]
    /\ placedBy = [i \in DOMAIN squares |-> "none"]
    /\ out = NoOut

Next ==
    \/ toggleTheme
    \/ \E i \in Clickable(Cur) : onCellClick(i)
    \/ \E k \in 1..Len(timers) : \E rnd \in Draws(timers[k]) : aiTimerFire(k, rnd)
    \/ resetBoard
    \/ resetAll
    \/ \E m \in Modes : changeMode(m)
    \/ \E side \in Players : changeAiSide(side)
    \/ \E size \in Sizes : changeBoardSize(size)

Spec == Init /\ [][Next]_vars

\* handleMove called, not through a cell of the rendered board, with the
\* first index past the end of the array.
OutOfRange(c) ==
    {i \in {Cardinality(DOMAIN c.squares)} : i < c.boardSize * c.boardSize + MaxExtra}

handleMoveCall(i) ==
    LET h == handleMove(Cur, i)
    IN /\ MayMove
       /\ lastOp' = Op("handleMove", IF gameOver THEN "concluded" ELSE "outOfRange")
       /\ IF h.moved
          THEN Commit(Render(boardSize, h.squares, ~xIsNext, mode, aiPlaysAs),
                      TRUE, scores, timers)
          ELSE UNCHANGED <<Session, timers>>
       /\ UNCHANGED out
       /\ Provenance("caller")

NextCall ==
    \/ Next
    \/ \E i \in OutOfRange(Cur) : handleMoveCall(i)

SpecCall == Init /\ [][NextCall]_vars

\* A timer that is not cleared fires: the callback of a pending timer runs
\* after its 400 ms, so the firing of a pending timer is weakly fair.
AiFire == \E k \in 1..Len(timers) : \E rnd \in Draws(timers[k]) : aiTimerFire(k, rnd)

SpecLive == Init /\ [][Next]_vars /\ WF_vars(AiFire)

\* ---------------------------------------------------------------- the pure functions
\* The outcome Game derives from a board (winner, gameOver, statusText).
outcome(sq, size) ==
    IF calculateWinner(sq, size).winner # null THEN "Win"
    ELSE IF isBoardFull(sq) THEN "Draw"
    ELSE "InProgress"

Cells == {null, "X", "O"}

\* A full size x size board with no complete line (size 4 and 5).
mixedBoard(size) ==
    [i \in 0..(size * size - 1) |->
        IF (((i % size) \div 2) + (i \div size)) % 2 = 0 THEN "X" ELSE "O"]

\* Board b with the cells of line written from the sequence marks.
overlay(b, line, marks) ==
    [i \in DOMAIN b |->
        IF \E k \in 1..Len(line) : line[k] = i
        THEN marks[CHOOSE k \in 1..Len(line) : line[k] = i]
        ELSE b[i]]

\* n cells of symbol sym, the cell at position gap (if in 1..n) left empty.
gapped(n, sym, gap) == [k \in 1..n |-> IF k = gap THEN null ELSE sym]

\* The boards the pure functions are applied to: every 3x3 board; of size 4
\* and 5, every filling of one winning line over the empty and over the mixed
\* board, and every two lines each filled by one symbol but for at most one
\* gap, over the empty board.
Boards(size) ==
    IF size = 3 THEN [0..8 -> Cells]
    ELSE LET lines == buildWinningLines(size)
         IN {overlay(bg, lines[l], marks) :
                bg \in {emptyBoard(size), mixedBoard(size)},
                l \in 1..Len(lines), marks \in [1..size -> Cells]}
            \cup
            {overlay(overlay(emptyBoard(size), lines[p[1]], gapped(size, p[3], p[5])),
                     lines[p[2]], gapped(size, p[4], p[6])) :
                p \in {q \in (1..Len(lines)) \X (1..Len(lines)) \X Players \X Players
                                \X (0..size) \X (0..size) : q[1] < q[2]}}

\* The values of rnd a call of aiMove on board sq is checked with.
EvalDraws(sq) ==
    LET n == Len(emptyIndices(sq))
    IN IF n = 0 THEN {0} ELSE {r \in 0..(n - 1) : r < MaxChoices \/ r = n - 1}

InitEval ==
    /\ boardSize \in Sizes
    /\ squares \in Boards(boardSize)
    /\ aiPlaysAs \in Players
    /\ xIsNext = TRUE
    /\ mode = "AI"
    /\ scores = [X |-> 0, O |-> 0, draws |-> 0]
    /\ timers = <<>>
    /\ lastOp = [name |-> "input", case |-> "render", pending |-> FALSE]
    /\ placedBy = [i \in DOMAIN squares |-> IF squares[i] = null THEN "none" ELSE "given"]
    /\ out = NoOut

Evaluate ==
    /\ out = NoOut
    /\ out' = [op |-> "evaluate",
               winner |-> calculateWinner(squares, boardSize).winner,
               line |-> calculateWinner(squares, boardSize).line,
               outcome |-> outcome(squares, boardSize)]
    /\ UNCHANGED <<Session, timers, lastOp, placedBy>>

SelectMove(rnd) ==
    /\ out = NoOut
    /\ out' = [op |-> "aiMove", idx |-> aiMove(squares, aiPlaysAs, boardSize, rnd)]
    /\ UNCHANGED <<Session, timers, lastOp, placedBy>>

\* buildWinningLines takes the size alone: it is applied once per size, on
\* the states with the empty board.
BuildLines ==
    /\ out = NoOut
    /\ squares = emptyBoard(boardSize)
    /\ out' = [op |-> "buildWinningLines", lines |-> buildWinningLines(boardSize)]
    /\ UNCHANGED <<Session, timers, lastOp, placedBy>>

NextEval ==
    \/ Evaluate
    \/ BuildLines
    \/ \E rnd \in EvalDraws(squares) : SelectMove(rnd)

SpecEval == InitEval /\ [][NextEval]_vars

\* ================================================================ properties
MoveOps == {"onCellClick", "aiTimer"}

ControlOps == {"resetBoard", "resetAll", "changeMode", "changeAiSide", "changeBoardSize"}

\* C1: a move (handleMove, reached from a click or from the AI timer) on a
\* cell that is occupied, or in a round that has concluded, changes nothing:
\* board, side to move, score, mode, AI side and board size stay as they were.
C1_RejectedMoveIsNoOp ==
    [][(lastOp'.name \in MoveOps /\ lastOp'.case \in {"occupied", "concluded"})
          => UNCHANGED Session]_vars

\* A click on an occupied cell of a round in progress has been handled.
C1_Witness ==
    /\ lastOp.name = "onCellClick"
    /\ lastOp.case = "occupied"
    /\ ~gameOver

\* C2: a step that concludes a round (gameOver turns true) adds exactly one
\* to exactly one counter, the winner's on a win and draws otherwise, and a
\* step from a concluded state to a concluded state changes no counter.
C2_ScoredOncePerRound ==
    [][/\ (~gameOver /\ gameOver') =>
            scores' = [scores EXCEPT ![IF winner' # null THEN winner' ELSE "draws"] = @ + 1]
       /\ (gameOver /\ gameOver') => scores' = scores]_vars

\* A concluded, counted round has been rendered again (App toggled its theme).
C2_Witness ==
    /\ gameOver
    /\ Total(scores) = 1
    /\ lastOp.name = "toggleTheme"

\* C3: a pending AI move always closes over the board, size, mode and AI
\* side of the moment (a change of any of them cancelled the earlier one),
\* and an AI move that is applied writes one mark of the AI's symbol into an
\* empty cell of the board of the moment, in AI mode, on the AI's turn.
C3_NoStaleAiMove ==
    /\ [](\A k \in 1..Len(timers) :
            /\ timers[k].squares = squares
            /\ timers[k].boardSize = boardSize
            /\ timers[k].mode = mode
            /\ timers[k].aiPlaysAs = aiPlaysAs)
    /\ [][(lastOp'.name = "aiTimer" /\ squares' # squares) =>
            /\ mode = "AI" /\ currentPlayer = aiPlaysAs
            /\ \E i \in DOMAIN squares :
                  /\ squares[i] = null
                  /\ squares' = [squares EXCEPT ![i] = aiPlaysAs]
            /\ UNCHANGED <<mode, aiPlaysAs, boardSize>>]_vars

\* A control operation changed mode, AI side, size or board while an AI move
\* was pending, and no AI move is pending after it.
C3_Witness ==
    /\ lastOp.name \in ControlOps
    /\ lastOp.pending
    /\ timers = <<>>

\* C4: at most one AI move is pending, and an applied AI move passes the
\* turn: after it the side to move is not the AI's and no AI move is pending.
C4_OneAiMovePerTurn ==
    /\ [](Len(timers) <= 1)
    /\ [][(lastOp'.name = "aiTimer" /\ squares' # squares) =>
            /\ currentPlayer = aiPlaysAs
            /\ currentPlayer' # aiPlaysAs'
            /\ timers' = <<>>
            /\ Cardinality({i \in DOMAIN squares : squares'[i] # squares[i]}) = 1]_vars

\* A control operation ran while an AI move was pending and an AI move is
\* pending after it.
C4_Witness ==
    /\ lastOp.name \in ControlOps
    /\ lastOp.pending
    /\ Len(timers) = 1

\* C6: when the move that fills the last empty cell completes a line, the
\* outcome is Win: the winner's counter goes up by one, draws does not.
C6_FullBoardWinIsWin ==
    [][(~gameOver /\ isBoardFull(squares') /\ winner' # null) =>
            /\ outcome(squares', boardSize') = "Win"
            /\ scores' = [scores EXCEPT ![winner'] = @ + 1]
            /\ scores'.draws = scores.draws]_vars

\* The last move filled the board and completed a line.
C6_Witness ==
    /\ isBoardFull(squares)
    /\ winner # null
    /\ lastOp.name \in MoveOps
    /\ lastOp.case = "free"
    /\ scores[winner] = 1

\* ---------------------------------------------------------------- reference definitions
\* The winning lines as sets of cells, from the geometry of the board: the
\* cells of one row, of one column, of the main and of the anti-diagonal.
geoLines[n \in Sizes] ==
    LET all == 0..(n * n - 1)
    IN {{i \in all : i \div n = r} : r \in 0..(n - 1)}
         \cup {{i \in all : i % n = c} : c \in 0..(n - 1)}
         \cup {{i \in all : i \div n = i % n}}
         \cup {{i \in all : (i \div n) + (i % n) = n - 1}}

\* The winning lines in the checking order: rows top to bottom, columns left
\* to right, main diagonal, anti-diagonal; each from its first cell on.
orderedLines[n \in Sizes] ==
    [k \in 1..(2 * n + 2) |->
        IF k <= n THEN [j \in 1..n |-> (k - 1) * n + (j - 1)]
        ELSE IF k <= 2 * n THEN [j \in 1..n |-> (j - 1) * n + (k - n - 1)]
        ELSE IF k = 2 * n + 1 THEN [j \in 1..n |-> (j - 1) * (n + 1)]
        ELSE [j \in 1..n |-> j * (n - 1)]]

Range(f) == {f[k] : k \in DOMAIN f}

\* Every cell of the set L holds the symbol sym.
Filled(sq, L, sym) == \A i \in L : sq[i] = sym

\* The lines of orderedLines[n], by position, complete on board sq.
CompleteAt(sq, n) ==
    {k \in 1..(2 * n + 2) :
        /\ sq[orderedLines[n][k][1]] \in Players
        /\ Filled(sq, Range(orderedLines[n][k]), sq[orderedLines[n][k][1]])}

\* The symbol of the first complete line in the checking order, or null.
firstWinner(sq, n) ==
    LET hits == CompleteAt(sq, n)
    IN IF hits = {} THEN null
       ELSE sq[orderedLines[n][CHOOSE k \in hits : \A j \in hits : k <= j][1]]

\* The empty cells of sq that, filled with sym, make evaluate report a win of sym.
WinningCells(sq, n, sym) ==
    {i \in DOMAIN sq : sq[i] = null /\ firstWinner([sq EXCEPT ![i] = sym], n) = sym}

Other(sym) == IF sym = "X" THEN "O" ELSE "X"

\* C5: exactly one outcome holds and it is the reference's: Win iff some
\* line is filled by one symbol (the reported line being such a line of the
\* reported symbol), Draw iff no line is filled and no cell is empty,
\* InProgress iff no line is filled and some cell is empty.
C5_OutcomeMatchesReference ==
    out.op = "evaluate" =>
        LET won  == \E L \in geoLines[boardSize] : \E sym \in Players : Filled(squares, L, sym)
            full == \A i \in DOMAIN squares : squares[i] \in Players
        IN /\ out.outcome \in {"Win", "Draw", "InProgress"}
           /\ (out.outcome = "Win") = won
           /\ (out.outcome = "Draw") = (~won /\ full)
           /\ (out.outcome = "InProgress") = (~won /\ ~full)
           /\ (out.winner # null) = won
           /\ won => /\ out.winner \in Players
                     /\ Range(out.line) \in geoLines[boardSize]
                     /\ Len(out.line) = boardSize
                     /\ Filled(squares, Range(out.line), out.winner)
           /\ (squares = emptyBoard(boardSize)) => out.outcome = "InProgress"

\* evaluate has reported a draw on a 5x5 board.
C5_Witness ==
    /\ out.op = "evaluate"
    /\ boardSize = 5
    /\ out.outcome = "Draw"

\* C7 as claimed: for every line filled by a symbol, evaluate reports that
\* symbol and that line.
C7_EveryCompleteLineReported ==
    out.op = "evaluate" =>
        \A k \in 1..(2 * boardSize + 2) : \A sym \in Players :
            Filled(squares, Range(orderedLines[boardSize][k]), sym) =>
                out.winner = sym /\ out.line = orderedLines[boardSize][k]

\* C7 as amended: with a line filled by a symbol evaluate reports a win on
\* a line filled by the reported symbol, and reports that symbol and that
\* line when no other line is complete.
C7_OnlyCompleteLineReported ==
    out.op = "evaluate" =>
        \A k \in 1..(2 * boardSize + 2) : \A sym \in Players :
            Filled(squares, Range(orderedLines[boardSize][k]), sym) =>
                /\ out.winner \in Players
                /\ \E j \in CompleteAt(squares, boardSize) :
                      /\ out.line = orderedLines[boardSize][j]
                      /\ Filled(squares, Range(out.line), out.winner)
                /\ CompleteAt(squares, boardSize) = {k} =>
                      out.winner = sym /\ out.line = orderedLines[boardSize][k]

\* evaluate has run on a 4x4 board whose only complete line is the anti-diagonal.
C7_Witness ==
    /\ out.op = "evaluate"
    /\ boardSize = 4
    /\ CompleteAt(squares, 4) = {10}
    /\ out.winner = "O"

\* C8: evaluate reports the first complete line in the order rows, columns,
\* main diagonal, anti-diagonal, with the symbol that fills it, and no winner
\* and no line when none is complete.
C8_FirstLineInOrderReported ==
    out.op = "evaluate" =>
        LET hits == CompleteAt(squares, boardSize)
        IN IF hits = {}
           THEN out.winner = null /\ out.line = <<>>
           ELSE LET k == CHOOSE h \in hits : \A j \in hits : h <= j
                IN /\ out.line = orderedLines[boardSize][k]
                   /\ out.winner = squares[out.line[1]]

\* evaluate has run on a board with a complete column of X and, later in the
\* order, a complete column of O.
C8_Witness ==
    /\ out.op = "evaluate"
    /\ \E k, j \in CompleteAt(squares, boardSize) :
          /\ boardSize < k /\ k < j /\ j <= 2 * boardSize
          /\ squares[orderedLines[boardSize][k][1]] = "X"
          /\ squares[orderedLines[boardSize][j][1]] = "O"
    /\ \A k \in CompleteAt(squares, boardSize) : k > boardSize
    /\ out.winner = "X"

\* C9: aiMove returns no move exactly when the board has no empty cell, and
\* otherwise the index of an empty cell.
C9_MoveIsEmptyCellOrNone ==
    out.op = "aiMove" =>
        /\ (out.idx = noIndex) = (\A i \in DOMAIN squares : squares[i] # null)
        /\ out.idx # noIndex => (out.idx \in DOMAIN squares /\ squares[out.idx] = null)

\* aiMove has returned a cell on a board where neither side can win at once
\* (the random branch), the cell not being the lowest empty one.
C9_Witness ==
    /\ out.op = "aiMove"
    /\ WinningCells(squares, boardSize, "X") = {}
    /\ WinningCells(squares, boardSize, "O") = {}
    /\ out.idx # noIndex
    /\ \E i \in DOMAIN squares : i < out.idx /\ squares[i] = null

\* C10: when some empty cell, filled with the AI's symbol, makes evaluate
\* report a win of the AI, aiMove returns the lowest such cell, whatever the
\* opponent's winning cells and the random draw.
C10_LowestWinningCell ==
    out.op = "aiMove" =>
        LET W == WinningCells(squares, boardSize, aiPlaysAs)
        IN W # {} => out.idx \in W /\ \A i \in W : out.idx <= i

\* aiMove has returned the AI's winning cell on a board where the opponent
\* has a winning cell at a lower index.
C10_Witness ==
    /\ out.op = "aiMove"
    /\ out.idx \in WinningCells(squares, boardSize, aiPlaysAs)
    /\ \E i \in WinningCells(squares, boardSize, Other(aiPlaysAs)) : i < out.idx

\* C11: when no empty cell wins for the AI and some empty cell, filled by
\* the opponent, makes evaluate report a win of the opponent, aiMove returns
\* the lowest such cell whatever the random draw; on 3x3 with X on cells 0
\* and 1 and the AI playing O it returns 2.
C11_LowestBlockingCell ==
    out.op = "aiMove" =>
        LET W == WinningCells(squares, boardSize, aiPlaysAs)
            B == WinningCells(squares, boardSize, Other(aiPlaysAs))
        IN /\ (W = {} /\ B # {}) => (out.idx \in B /\ \A i \in B : out.idx <= i)
           /\ (/\ boardSize = 3
               /\ aiPlaysAs = "O"
               /\ squares = [i \in 0..8 |-> IF i \in {0, 1} THEN "X" ELSE null])
                  => out.idx = 2

\* aiMove has run for O on the 3x3 board with X on cells 0 and 1 only.
C11_Witness ==
    /\ out.op = "aiMove"
    /\ boardSize = 3
    /\ aiPlaysAs = "O"
    /\ squares = [i \in 0..8 |-> IF i \in {0, 1} THEN "X" ELSE null]
    /\ out.idx = 2

\* ---------------------------------------------------------------- the control operations
\* The board is size * size cells, all of them empty.
IsEmptyBoardOf(sq, size) ==
    /\ DOMAIN sq = 0..(size * size - 1)
    /\ \A i \in DOMAIN sq : sq[i] = null

ZeroScores == [X |-> 0, O |-> 0, draws |-> 0]

\* C12: resetBoard, changeMode, changeAiSide and changeBoardSize each leave
\* an all-empty board of the size current after the step, X to move and the
\* three score counters as they were; resetBoard also leaves the size, the
\* mode and the AI's side as they were.
C12_ResetsKeepScore ==
    [][ /\ lastOp'.name \in {"resetBoard", "changeMode", "changeAiSide", "changeBoardSize"}
           => /\ IsEmptyBoardOf(squares', boardSize')
              /\ xIsNext' = TRUE
              /\ scores' = scores
        /\ lastOp'.name = "resetBoard"
           => /\ boardSize' = boardSize
              /\ mode' = mode
              /\ aiPlaysAs' = aiPlaysAs ]_vars

\* The size was changed to 5 on a concluded, counted round: the board is the
\* empty 5x5 board and the round is still in the score.
C12_Witness ==
    /\ lastOp.name = "changeBoardSize"
    /\ lastOp.case = "concluded"
    /\ boardSize = 5
    /\ IsEmptyBoardOf(squares, 5)
    /\ xIsNext
    /\ Total(scores) = 1

\* C13: resetAll sets the three counters to zero and leaves the empty board
\* of the current size with X to move, also when the round was concluded
\* (the concluded round is not counted by the render that follows); no other
\* step makes any counter smaller.
C13_ResetAllZeroes ==
    [][ /\ lastOp'.name = "resetAll"
           => /\ scores' = ZeroScores
              /\ IsEmptyBoardOf(squares', boardSize)
              /\ boardSize' = boardSize
              /\ xIsNext' = TRUE
        /\ lastOp'.name # "resetAll"
           => /\ scores'.X >= scores.X
              /\ scores'.O >= scores.O
              /\ scores'.draws >= scores.draws ]_vars

\* resetAll has run on a concluded round and the score is zero.
C13_Witness ==
    /\ lastOp.name = "resetAll"
    /\ lastOp.case = "concluded"
    /\ scores = ZeroScores
    /\ IsEmptyBoardOf(squares, boardSize)

\* ---------------------------------------------------------------- turns
Count(sq, sym) == Cardinality({i \in DOMAIN sq : sq[i] = sym})

\* C15: X moves first and the turn alternates: in every state the number of
\* X marks less the number of O marks is 0 or 1, and X is to move exactly
\* when the two are equal; a step that changes the board without emptying it
\* writes the symbol of the side to move into one empty cell and nothing else.
C15_TurnsAlternate ==
    /\ [](/\ Count(squares, "X") - Count(squares, "O") \in {0, 1}
          /\ xIsNext <=> (Count(squares, "X") = Count(squares, "O")))
    /\ [][ (lastOp'.name \in MoveOps /\ squares' # squares)
           => \E i \in DOMAIN squares :
                 /\ squares[i] = null
                 /\ squares' = [squares EXCEPT ![i] = currentPlayer] ]_vars

\* A move of X has just been applied as the third mark of a round: O is to move.
C15_Witness ==
    /\ lastOp.name \in MoveOps
    /\ lastOp.case = "free"
    /\ Count(squares, "X") = 2
    /\ Count(squares, "O") = 1
    /\ ~xIsNext

\* C17: in AI mode a click while the side to move is the AI's symbol changes
\* neither the board nor the turn nor anything else of the session, and
\* leaves the pending AI move as it was, also on the empty board when the AI
\* plays X; in HUMAN mode no click is refused on that ground.
C17_ClickOnAiTurnIgnored ==
    [][ lastOp'.name = "onCellClick"
        => /\ (mode = "AI" /\ currentPlayer = aiPlaysAs)
              => (lastOp'.case = "aiTurn" /\ UNCHANGED <<Session, timers>>)
           /\ mode = "HUMAN"
              => /\ lastOp'.case # "aiTurn"
                 /\ lastOp'.case = "free"
                    => (squares' # squares /\ xIsNext' = ~xIsNext) ]_vars

\* The AI plays X, the board is empty, a click has been ignored and the AI's
\* move is still pending.
C17_Witness ==
    /\ lastOp.name = "onCellClick"
    /\ lastOp.case = "aiTurn"
    /\ mode = "AI"
    /\ aiPlaysAs = "X"
    /\ \A i \in DOMAIN squares : squares[i] = null
    /\ Len(timers) = 1

\* C19: the session starts as the empty 3x3 board with X to move, mode
\* HUMAN, the AI's side O and a zero score; in every state the size is 3, 4
\* or 5 and the board has exactly size * size cells, indexed from 0.
C19_BoardMatchesSize ==
    /\ boardSize = 3
    /\ IsEmptyBoardOf(squares, 3)
    /\ xIsNext = TRUE
    /\ mode = "HUMAN"
    /\ aiPlaysAs = "O"
    /\ scores = ZeroScores
    /\ [](/\ boardSize \in {3, 4, 5}
          /\ DOMAIN squares = 0..(boardSize * boardSize - 1)
          /\ \A i \in DOMAIN squares : squares[i] \in {null, "X", "O"})

\* Moves were made on the 4x4 board after a change of size.
C19_Witness ==
    /\ boardSize = 4
    /\ Cardinality(DOMAIN squares) = 16
    /\ Count(squares, "X") = 2
    /\ lastOp.name \in MoveOps

\* ---------------------------------------------------------------- the AI's moves
\* C18: an AI move is pending, and is applied, only while the mode is AI,
\* the round is in progress and the side to move is the AI's symbol, and it
\* writes the AI's symbol into one empty cell; in HUMAN mode no AI move
\* happens and no mark on the board is the AI's work; in AI mode the marks of
\* the AI's symbol are exactly those placed by AI moves and the marks of the
\* other symbol exactly those placed by clicks.
C18_AiMovesOwnSymbolOnly ==
    /\ [](timers # <<>> => (mode = "AI" /\ ~gameOver /\ currentPlayer = aiPlaysAs))
    /\ [][ lastOp'.name = "aiTimer"
           => /\ mode = "AI"
              /\ squares' # squares
                 => /\ ~gameOver
                    /\ currentPlayer = aiPlaysAs
                    /\ \E i \in DOMAIN squares :
                          /\ squares[i] = null
                          /\ squares' = [squares EXCEPT ![i] = aiPlaysAs] ]_vars
    /\ [](mode = "HUMAN" => \A i \in DOMAIN squares : placedBy[i] # "ai")
    /\ [](mode = "AI"
          => \A i \in DOMAIN squares :
                /\ squares[i] = aiPlaysAs <=> placedBy[i] = "ai"
                /\ squares[i] = Other(aiPlaysAs) <=> placedBy[i] = "human")

\* In AI mode with the AI playing X, the AI has just placed its second mark
\* after a click placed an O.
C18_Witness ==
    /\ mode = "AI"
    /\ aiPlaysAs = "X"
    /\ lastOp.name = "aiTimer"
    /\ lastOp.case = "free"
    /\ Cardinality({i \in DOMAIN squares : placedBy[i] = "ai" /\ squares[i] = "X"}) = 2
    /\ Cardinality({i \in DOMAIN squares : placedBy[i] = "human" /\ squares[i] = "O"}) = 1

\* ---------------------------------------------------------------- progress
\* It is the AI's turn in a round in progress (and the bounds of the model
\* leave the AI a move to make).
AiToMove ==
    /\ mode = "AI"
    /\ ~gameOver
    /\ currentPlayer = aiPlaysAs
    /\ Total(scores) < MaxRounds
    /\ Draws(Cur) # {}

\* An AI move has just been applied and the turn has passed or the round is over.
AiMoveApplied ==
    /\ lastOp.name = "aiTimer"
    /\ lastOp.case = "free"
    /\ (currentPlayer # aiPlaysAs \/ gameOver)

\* C16: with pending timers firing, whenever it is the AI's turn in a round
\* in progress an AI move is eventually applied, after which the other side
\* is to move or the round is concluded, unless a control operation has taken
\* the session out of the AI's turn.
C16_AiEventuallyMoves ==
    AiToMove ~> (\/ AiMoveApplied
                 \/ (lastOp.name \in ControlOps
                       /\ ~(mode = "AI" /\ ~gameOver /\ currentPlayer = aiPlaysAs)))

\* The AI, playing O, has answered the first click: X is to move again.
C16_Witness ==
    /\ AiMoveApplied
    /\ mode = "AI"
    /\ aiPlaysAs = "O"
    /\ ~gameOver
    /\ Count(squares, "O") = 1
    /\ xIsNext

\* ---------------------------------------------------------------- the winning lines
\* C14: for each size N of 3, 4, 5, buildWinningLines(N) has exactly 2N + 2
\* entries: the N rows, then the N columns, the main diagonal and the
\* anti-diagonal; each entry has length N and holds N pairwise distinct
\* indices of [0, N * N).
C14_WinningLinesShape ==
    out.op = "buildWinningLines" =>
        LET N == boardSize
            L == out.lines
        IN /\ Len(L) = 2 * N + 2
           /\ \A k \in 1..Len(L) :
                 /\ Len(L[k]) = N
                 /\ Range(L[k]) \subseteq 0..(N * N - 1)
                 /\ Cardinality(Range(L[k])) = N
           /\ \A k \in 1..N : Range(L[k]) = {i \in 0..(N * N - 1) : i \div N = k - 1}
           /\ \A k \in 1..N : Range(L[N + k]) = {i \in 0..(N * N - 1) : i % N = k - 1}
           /\ Range(L[2 * N + 1]) = {i \in 0..(N * N - 1) : i \div N = i % N}
           /\ Range(L[2 * N + 2]) = {i \in 0..(N * N - 1) : (i \div N) + (i % N) = N - 1}

\* buildWinningLines has run for size 5 and returned twelve lines.
C14_Witness ==
    /\ out.op = "buildWinningLines"
    /\ boardSize = 5
    /\ Len(out.lines) = 12

\* ---------------------------------------------------------------- malformed input
\* C20: a call of handleMove with an index outside [0, N * N) leaves the
\* board and the turn as they were, and the board never has a cell outside
\* [0, N * N).
C20_OutOfRangeRejected ==
    /\ [][lastOp'.name = "handleMove" => UNCHANGED <<squares, xIsNext>>]_vars
    /\ [](DOMAIN squares = 0..(boardSize * boardSize - 1))

====
